---- MODULE Spec2Model ----
(***************************************************************************)
(* HelmertEncoder of category_encoders/helmert.py as a state machine.      *)
(*                                                                         *)
(* A table (pandas DataFrame) is a record                                  *)
(*    [columns |-> sequence of column names,                               *)
(*     rows    |-> sequence of rows, each a sequence of cells,             *)
(*     reps    |-> how many times the first row occurs]                    *)
(* so that a dataset of tens of thousands of rows, all but a few of them   *)
(* equal, is still a small value.  A cell is [str |-> s, num |-> n]: a     *)
(* string cell has s # "", a numeric cell has s = "" and the number        *)
(* n / 100 (cells are kept in hundredths, so that 0.01 is the cell 1 and   *)
(* the Helmert entry -1 is the cell -100).  NaN is the cell with           *)
(* str = "NaN".                                                            *)
(***************************************************************************)
EXTENDS Integers, Sequences, FiniteSets, TLC

\* ------------------------------------------------------------------ bounds
MaxRows == 3        \* rows of a one-column categorical fit dataset
MaxTRows == 2       \* rows of a transform input and of the other fit datasets
ManyRows == 45000   \* repetition count of the first row of a large fit dataset
MaxConcRows == 2    \* rows of a fit dataset, concurrent runs
MaxConcTRows == 1   \* rows of a one-column transform input, concurrent runs

FitCats == {"a", "b", "c"}   \* category values of the one-column fit datasets
Cats == {"a", "b"}           \* category values of the other datasets
Unseen == "d"                \* a category value no fit dataset holds
Nums == {0, 1, 3}            \* numeric cells: 0, 0.01, 0.03
Callers == {1, 2}            \* concurrent callers of transform

\* ------------------------------------------------------------------- cells
Str(s) == [str |-> s, num |-> 0]
Num(n) == [str |-> "", num |-> n]
Whole(v) == Num(100 * v)
NaN == [str |-> "NaN", num |-> 0]
IsStr(c) == c.str # "" /\ c.str # "NaN"

Range(s) == {s[i] : i \in 1..Len(s)}

RECURSIVE Flatten(_)
Flatten(ss) == IF ss = <<>> THEN <<>> ELSE Head(ss) \o Flatten(Tail(ss))

RECURSIVE SumSeq(_)
SumSeq(s) == IF s = <<>> THEN 0 ELSE Head(s) + SumSeq(Tail(s))

\* ------------------------------------------------------------------ tables
NRows(X) == X.reps + Len(X.rows) - 1
HasColumn(X, name) == name \in Range(X.columns)
ColumnIndex(X, name) == CHOOSE i \in 1..Len(X.columns) : X.columns[i] = name
Column(X, name) == [r \in 1..Len(X.rows) |-> X.rows[r][ColumnIndex(X, name)]]

\* pandas DataFrame.drop(col, 1) of a column that is there
DropColumn(X, name) ==
    LET keep == SelectSeq([i \in 1..Len(X.columns) |-> i],
                          LAMBDA i : X.columns[i] # name)
    IN  [X EXCEPT !.columns = [j \in 1..Len(keep) |-> X.columns[keep[j]]],
                  !.rows = [r \in 1..Len(X.rows) |->
                               [j \in 1..Len(keep) |-> X.rows[r][keep[j]]]]]

\* utils.convert_input: the caller's data as a DataFrame whose columns are
\* numbered from 0
convert_input(X) == X

\* utils.get_obj_cols: the columns of dtype object, in column order
get_obj_cols(X) ==
    SelectSeq(X.columns,
              LAMBDA name : \E r \in 1..Len(X.rows) : IsStr(Column(X, name)[r]))

\* ------------------------------------------------- ordinal.OrdinalEncoder
RECURSIVE FirstOccurrence(_)
FirstOccurrence(vals) ==
    IF vals = <<>> THEN <<>>
    ELSE LET init == FirstOccurrence(SubSeq(vals, 1, Len(vals) - 1))
             last == vals[Len(vals)]
         IN  IF last \in Range(init) THEN init ELSE Append(init, last)

NoOrdinalEncoder == [fitted |-> FALSE, mapping |-> <<>>]

\* OrdinalEncoder(cols).fit(X): per column, the categories in the order of
\* their first occurrence; the category at position j has the code j
ordinal_fit(X, cols) ==
    [fitted |-> TRUE,
     mapping |-> [i \in 1..Len(cols) |->
                    [col |-> cols[i],
                     categories |-> FirstOccurrence(Column(X, cols[i]))]]]

\* the code of a value: its position among the categories, 0 when unseen
CodeOf(categories, v) ==
    IF v \in Range(categories)
    THEN CHOOSE j \in 1..Len(categories) : categories[j] = v
    ELSE 0

CategoriesOf(oe, name) ==
    LET i == CHOOSE i \in 1..Len(oe.mapping) : oe.mapping[i].col = name
    IN  oe.mapping[i].categories

IsMapped(oe, name) == \E i \in 1..Len(oe.mapping) : oe.mapping[i].col = name

\* OrdinalEncoder.transform(X): the cells of the mapped columns replaced by
\* their integer codes
ordinal_transform(oe, X) ==
    [X EXCEPT !.rows =
        [r \in 1..Len(X.rows) |->
            [c \in 1..Len(X.columns) |->
                IF IsMapped(oe, X.columns[c])
                THEN Num(CodeOf(CategoriesOf(oe, X.columns[c]), X.rows[r][c]))
                ELSE X.rows[r][c]]]]

\* ------------------------------------------ patsy dmatrix("C(col, Helmert)")
\* entry of patsy's Helmert contrast c (1..k-1) for the level of rank j
HelmertContrast(j, c) == IF j <= c THEN -1 ELSE IF j = c + 1 THEN c ELSE 0

\* The design matrix of one column of integer codes: the levels are the
\* distinct codes of THIS column, sorted; column 0 is the intercept, then one
\* contrast per level but the first.
dmatrix(codes) ==
    LET levels == {codes[r].num : r \in 1..Len(codes)}
        k == Cardinality(levels)
        Rank(v) == Cardinality({l \in levels : l <= v})
    IN  [r \in 1..Len(codes) |->
            [dig \in 1..k |->
                IF dig = 1 THEN Whole(1)
                ELSE Whole(HelmertContrast(Rank(codes[r].num), dig - 1))]]

\* ------------------------------------------- HelmertEncoder.helmert_coding
helmert_coding(X_in, cols_in) ==
    LET X == [X_in EXCEPT !.columns =
                 [i \in 1..Len(X_in.columns) |-> "col_" \o X_in.columns[i]]]
        cols == [i \in 1..Len(cols_in) |-> "col_" \o cols_in[i]]
        pass_thru == SelectSeq(X.columns, LAMBDA col : col \notin Range(cols))
        mod == [i \in 1..Len(cols) |-> dmatrix(Column(X, cols[i]))]
        bin_cols == Flatten([i \in 1..Len(cols) |->
                       [dig \in 1..Len(mod[i][1]) |->
                           cols[i] \o "_" \o ToString(dig - 1)]])
    IN  [columns |-> bin_cols \o pass_thru,
         rows |-> [r \in 1..Len(X.rows) |->
                     Flatten([i \in 1..Len(cols) |-> mod[i][r]])
                     \o [j \in 1..Len(pass_thru) |-> Column(X, pass_thru[j])[r]]],
         reps |-> X.reps]

\* ------------------------------------------------------ pandas Series.var
VarThresholdInv == 10000     \* 1 / 10e-5, the threshold of fit

\* sum over the pairs of rows of the squared difference of the cells, each
\* divided by div first; the first row counts reps times
PairSquares(vals, reps, div) ==
    SumSeq(Flatten(
        [i \in 1..Len(vals) |->
            [j \in 1..Len(vals) |->
                IF i < j
                THEN (IF i = 1 THEN reps ELSE 1)
                     * (((vals[i].num - vals[j].num) \div div)
                        * ((vals[i].num - vals[j].num) \div div))
                ELSE 0]]))

\* Series.var() <= 1 / inv for a column of numeric cells (inv a multiple of
\* 10000).  The sample variance of n rows is the sum of the squared pairwise
\* differences over n (n - 1); a single row has the variance NaN, and no
\* comparison with NaN is true.  Cells are hundredths: a column of whole
\* numbers is compared in units, the others in hundredths.
VarAtMost(vals, reps, inv) ==
    LET n == reps + Len(vals) - 1
    IN  /\ n >= 2
        /\ IF \A i \in 1..Len(vals) : vals[i].num % 100 = 0
           THEN PairSquares(vals, reps, 100) <= (n * (n - 1)) \div inv
           ELSE (inv \div 10000) * PairSquares(vals, reps, 1) <= n * (n - 1)

\* ------------------------------------------------ HelmertEncoder.__init__
NoneDim == -1                                \* _dim is None
NoneCols == [isNone |-> TRUE, list |-> <<>>] \* cols is None
ListCols(l) == [isNone |-> FALSE, list |-> l]

\* HelmertEncoder(verbose, cols, drop_invariant, return_df)
HelmertEncoder(cols_arg, drop_invariant_arg, return_df_arg) ==
    [return_df |-> return_df_arg,
     drop_invariant |-> drop_invariant_arg,
     drop_cols |-> <<>>,
     cols |-> cols_arg,
     ordinal_encoder |-> NoOrdinalEncoder,
     dim |-> NoneDim]

\* ------------------------------------------------ HelmertEncoder.transform
\* One call of transform is a frame: where the call stands, its local X and,
\* once it has ended, what it returned or raised.
NoTable == [columns |-> <<>>, rows |-> <<>>, reps |-> 1]
NoResult == [status |-> "none", kind |-> "none", table |-> NoTable]
IdleFrame == [pc |-> "idle", input |-> NoTable, X |-> NoTable,
              encoded |-> FALSE, out |-> NoResult]
CallFrame(X) == [pc |-> "called", input |-> X, X |-> X,
                 encoded |-> FALSE, out |-> NoResult]

Raise(f, error) ==
    [f EXCEPT !.pc = "done",
              !.out = [status |-> error, kind |-> "none", table |-> NoTable]]
Return(f, kind, table) ==
    [f EXCEPT !.pc = "done",
              !.out = [status |-> "ok", kind |-> kind, table |-> table]]

\* DataFrame.values: the cells without the column names
Values(X) == [X EXCEPT !.columns = <<>>]

\* lines 113-117
CheckFitted(s, f) ==
    IF s.dim = NoneDim THEN Raise(f, "NotFitted")
    ELSE [f EXCEPT !.pc = "converted", !.X = convert_input(f.X)]

\* CheckDim without the comparison of the column counts
CheckDimUnguarded(s, f) ==
    IF s.cols.isNone \/ s.cols.list = <<>> THEN Return(f, "DataFrame", f.X)
    ELSE [f EXCEPT !.pc = "sized"]

\* lines 120-124
CheckDim(s, f) ==
    IF Len(f.X.columns) # s.dim THEN Raise(f, "DimMismatch")
    ELSE IF s.cols.isNone \/ s.cols.list = <<>> THEN Return(f, "DataFrame", f.X)
    ELSE [f EXCEPT !.pc = "sized"]

\* line 126
OrdinalStep(s, f) ==
    [f EXCEPT !.pc = "encoded", !.encoded = TRUE,
              !.X = ordinal_transform(s.ordinal_encoder, f.X)]

\* line 128
HelmertStep(s, f) ==
    [f EXCEPT !.pc = "expanded", !.X = helmert_coding(f.X, s.cols.list)]

RECURSIVE DropAll(_, _)
DropAll(X, names) ==
    IF names = <<>> THEN X ELSE DropAll(DropColumn(X, Head(names)), Tail(names))

\* lines 130-132: DataFrame.drop raises for a label that is not a column
DropStep(s, f) ==
    IF ~s.drop_invariant THEN [f EXCEPT !.pc = "pruned"]
    ELSE IF \E i \in 1..Len(s.drop_cols) : ~HasColumn(f.X, s.drop_cols[i])
    THEN Raise(f, "DropError")
    ELSE [f EXCEPT !.pc = "pruned", !.X = DropAll(f.X, s.drop_cols)]

\* lines 134-137
ReturnStep(s, f) ==
    IF s.return_df THEN Return(f, "DataFrame", f.X)
    ELSE Return(f, "ndarray", Values(f.X))

Step(s, f) ==
    CASE f.pc = "called" -> CheckFitted(s, f)
      [] f.pc = "converted" -> CheckDim(s, f)
      [] f.pc = "sized" -> OrdinalStep(s, f)
      [] f.pc = "encoded" -> HelmertStep(s, f)
      [] f.pc = "expanded" -> DropStep(s, f)
      [] f.pc = "pruned" -> ReturnStep(s, f)

RECURSIVE Run(_, _)
Run(s, f) == IF f.pc = "done" THEN f ELSE Run(s, Step(s, f))

\* the whole call self.transform(X)
transform(s, X) == Run(s, CallFrame(X))

\* ------------------------------------------------------ HelmertEncoder.fit
\* lines 79-88
FitEncoders(s, X_in) ==
    LET X == convert_input(X_in)
        cols == IF s.cols.isNone THEN ListCols(get_obj_cols(X)) ELSE s.cols
    IN  [s EXCEPT !.dim = Len(X.columns),
                  !.cols = cols,
                  !.ordinal_encoder = ordinal_fit(X, cols.list)]

\* line 93: the columns of X_temp whose variance is at most 10e-5
InvariantCols(X_temp, inv) ==
    SelectSeq(X_temp.columns,
              LAMBDA x : VarAtMost(Column(X_temp, x), X_temp.reps, inv))

HasStrColumn(X) ==
    \E c \in 1..Len(X.columns) : \E r \in 1..Len(X.rows) : IsStr(X.rows[r][c])

\* fit(X): the encoder after the call and how the call ended.  With
\* drop_invariant, transform's result is used as a DataFrame: an ndarray has
\* no attribute columns (AttributeError), and Series.var of a column of
\* strings raises TypeError.
fit(s, X) ==
    LET s1 == FitEncoders(s, X)
        s2 == [s1 EXCEPT !.drop_cols = <<>>]
        X_temp == transform(s2, X).out
    IN  IF ~s.drop_invariant THEN [self |-> s1, status |-> "ok"]
        ELSE IF X_temp.kind = "ndarray"
        THEN [self |-> s2, status |-> "AttributeError"]
        ELSE IF HasStrColumn(X_temp.table)
        THEN [self |-> s2, status |-> "TypeError"]
        ELSE [self |-> [s2 EXCEPT !.drop_cols =
                           InvariantCols(X_temp.table, VarThresholdInv)],
              status |-> "ok"]

\* ------------------------------------------------------------------ inputs
CatRows(cats) == {<<Str(c)>> : c \in cats}
NumRows == {<<Num(n)>> : n \in Nums}
CatNumRows(cats) == {<<Str(c), Num(n)>> : c \in cats, n \in Nums}

\* the tables of 1..max rows drawn from rowset, the first row reps times
Tables(columns, rowset, max, reps) ==
    {[columns |-> columns, rows |-> rows, reps |-> reps] :
        rows \in UNION {[1..m -> rowset] : m \in 1..max}}

\* Fit datasets: one categorical column; the same with the first row
\* repeated ManyRows times; a categorical and a numeric column; one numeric
\* column.
FitInputs ==
    Tables(<<"0">>, CatRows(FitCats), MaxRows, 1)
    \cup Tables(<<"0">>, CatRows(Cats), MaxTRows, ManyRows)
    \cup Tables(<<"0", "1">>, CatNumRows({"a"}), MaxTRows, 1)
    \cup Tables(<<"0">>, NumRows, 1, 1)

\* Transform inputs: one column of seen and unseen categories, or two columns
TransformInputs ==
    Tables(<<"0">>, CatRows(Cats \cup {Unseen}), MaxTRows, 1)
    \cup Tables(<<"0", "1">>, CatNumRows({"a", Unseen}), 1, 1)

\* the inputs of the runs with concurrent callers
ConcFitInputs ==
    Tables(<<"0">>, CatRows(Cats), MaxConcRows, 1)
    \cup {X \in Tables(<<"0">>, CatRows(Cats), MaxConcRows, ManyRows) :
             Len(X.rows) = MaxConcRows}

ConcInputs ==
    Tables(<<"0">>, CatRows({"a", Unseen}), MaxConcTRows, 1)
    \cup Tables(<<"0", "1">>, {<<Str("a"), Num(0)>>}, 1, 1)

\* ------------------------------------------------------------------- state
VARIABLES
    self,         \* the encoder: the attributes __init__ sets
    cols_arg,     \* the cols argument the encoder was constructed with
    fit_X,        \* the dataset of the last call of fit
    fit_status,   \* how the last call of fit ended, "none" before any
    calls         \* the calls of transform, one frame per caller

vars == <<self, cols_arg, fit_X, fit_status, calls>>

Init ==
    /\ cols_arg \in {NoneCols, ListCols(<<"0">>)}
    /\ \E d \in BOOLEAN, r \in BOOLEAN : self = HelmertEncoder(cols_arg, d, r)
    /\ fit_X = NoTable
    /\ fit_status = "none"
    /\ calls = [c \in Callers |-> IdleFrame]

\* fit(X), called while no call of transform is under way (fit is not to be
\* called concurrently with anything).  The returns of earlier calls of
\* transform are forgotten: a frame records a call on the encoder as it is.
Fit(X) ==
    /\ \A c \in Callers : calls[c].pc \in {"idle", "done"}
    /\ LET r == fit(self, X)
       IN  /\ self' = r.self
           /\ fit_status' = r.status
    /\ fit_X' = X
    /\ calls' = [c \in Callers |-> IdleFrame]
    /\ UNCHANGED cols_arg

\* transform(X) from its call to its return
Transform(X) ==
    /\ calls[1].pc \in {"idle", "done"}
    /\ calls' = [calls EXCEPT ![1] = transform(self, X)]
    /\ UNCHANGED <<self, cols_arg, fit_X, fit_status>>

Next ==
    \/ \E X \in FitInputs : Fit(X)
    \/ \E X \in TransformInputs : Transform(X)

Spec == Init /\ [][Next]_vars

\* ------------------------------------------- concurrent calls of transform
\* caller c calls transform(X)
TCall(c, X) ==
    /\ calls[c].pc \in {"idle", "done"}
    /\ calls' = [calls EXCEPT ![c] = CallFrame(X)]
    /\ UNCHANGED <<self, cols_arg, fit_X, fit_status>>

TCheckFitted(c) ==
    /\ calls[c].pc = "called"
    /\ calls' = [calls EXCEPT ![c] = CheckFitted(self, calls[c])]
    /\ UNCHANGED <<self, cols_arg, fit_X, fit_status>>

TCheckDim(c) ==
    /\ calls[c].pc = "converted"
    /\ calls' = [calls EXCEPT ![c] = CheckDim(self, calls[c])]
    /\ UNCHANGED <<self, cols_arg, fit_X, fit_status>>

TOrdinal(c) ==
    /\ calls[c].pc = "sized"
    /\ calls' = [calls EXCEPT ![c] = OrdinalStep(self, calls[c])]
    /\ UNCHANGED <<self, cols_arg, fit_X, fit_status>>

THelmert(c) ==
    /\ calls[c].pc = "encoded"
    /\ calls' = [calls EXCEPT ![c] = HelmertStep(self, calls[c])]
    /\ UNCHANGED <<self, cols_arg, fit_X, fit_status>>

\* TDrop emptying self.drop_cols as it drops, the way fit resets it
TDropConsuming(c) ==
    /\ calls[c].pc = "expanded"
    /\ calls' = [calls EXCEPT ![c] = DropStep(self, calls[c])]
    /\ self' = [self EXCEPT !.drop_cols = <<>>]
    /\ UNCHANGED <<cols_arg, fit_X, fit_status>>

TDrop(c) ==
    /\ calls[c].pc = "expanded"
    /\ calls' = [calls EXCEPT ![c] = DropStep(self, calls[c])]
    /\ UNCHANGED <<self, cols_arg, fit_X, fit_status>>

TReturn(c) ==
    /\ calls[c].pc = "pruned"
    /\ calls' = [calls EXCEPT ![c] = ReturnStep(self, calls[c])]
    /\ UNCHANGED <<self, cols_arg, fit_X, fit_status>>

NextConc ==
    \/ \E X \in ConcFitInputs : Fit(X)
    \/ \E c \in Callers, X \in ConcInputs : TCall(c, X)
    \/ \E c \in Callers : TCheckFitted(c)
    \/ \E c \in Callers : TCheckDim(c)
    \/ \E c \in Callers : TOrdinal(c)
    \/ \E c \in Callers : THelmert(c)
    \/ \E c \in Callers : TDrop(c)
    \/ \E c \in Callers : TReturn(c)

SpecConc == Init /\ [][NextConc]_vars

\* ------------------------------------------------------------ claim helpers
Done(f) == f.pc = "done"
Ok(f) == f.pc = "done" /\ f.out.status = "ok"
\* the call went through the whole pipeline: encoded, expanded, returned
Expanded(f) == Ok(f) /\ f.encoded

\* the trained cardinality of the categorical column at position i of cols
K(i) == Len(self.ordinal_encoder.mapping[i].categories)
\* where the claims place the block of column i among the output columns
Offset(i) == SumSeq([j \in 1..(i - 1) |-> K(j)])
\* the fit-time code of the cell of row r of f's input in categorical column i
CodeAt(f, i, r) ==
    CodeOf(self.ordinal_encoder.mapping[i].categories,
           Column(f.input, self.cols.list[i])[r])

\* cell v is entry (row j, column dig) of the k x k Helmert matrix of the
\* specification: 1 in column 0; in contrast column c: -1/(c+1) for j <= c,
\* c/(c+1) for j = c+1, 0 for j >= c+2.  Cells are hundredths.
IsHelmertEntry(v, j, dig) ==
    /\ v.str = ""
    /\ IF dig = 0 THEN v.num = 100
       ELSE IF j <= dig THEN v.num * (dig + 1) = -100
       ELSE IF j = dig + 1 THEN v.num * (dig + 1) = 100 * dig
       ELSE v.num = 0

\* row r of f's output holds, in the block of column i, row j of the matrix
HasMatrixRow(f, i, r, j) ==
    /\ Len(f.out.table.rows[r]) >= Offset(i) + K(i)
    /\ \A dig \in 0..(K(i) - 1) :
          IsHelmertEntry(f.out.table.rows[r][Offset(i) + dig + 1], j, dig)

HasUndefinedRow(f, i, r) ==
    /\ Len(f.out.table.rows[r]) >= Offset(i) + K(i)
    /\ \A dig \in 0..(K(i) - 1) :
          f.out.table.rows[r][Offset(i) + dig + 1] = NaN

\* ---------------------------------------------------------------------- C1
\* C1: without pruning, every transform output has n_passthrough + sum of
\* the trained cardinalities k_i columns, whatever categories the input holds.
C1_WidthIsTrainedCardinality ==
    \A c \in Callers :
        (Expanded(calls[c]) /\ ~self.drop_invariant) =>
            \A r \in 1..Len(calls[c].out.table.rows) :
                Len(calls[c].out.table.rows[r]) =
                    (Len(calls[c].input.columns) - Len(self.cols.list))
                    + Offset(Len(self.cols.list) + 1)

\* ---------------------------------------------------------------------- C2
\* C2: without pruning, a row whose category has the fit-time code j gets
\* row j of the Helmert matrix of the trained cardinality as its k values.
C2_RowIsMatrixRowOfCode ==
    \A c \in Callers :
        (Expanded(calls[c]) /\ ~self.drop_invariant) =>
            \A i \in 1..Len(self.cols.list) :
                \A r \in 1..Len(calls[c].input.rows) :
                    CodeAt(calls[c], i, r) >= 1 =>
                        HasMatrixRow(calls[c], i, r, CodeAt(calls[c], i, r))

\* ---------------------------------------------------------------------- C3
HasUnseen(f) ==
    \E i \in 1..Len(self.cols.list) :
        \E r \in 1..Len(f.input.rows) : CodeAt(f, i, r) = 0

\* C3: a transform input with an unseen category does not fail; the unseen
\* row's k values are all undefined and the other rows get the matrix row of
\* their code.
C3_UnseenRowIsUndefined ==
    \A c \in Callers :
        (/\ Done(calls[c])
         /\ self.dim = Len(calls[c].input.columns)
         /\ self.cols.list # <<>>
         /\ HasUnseen(calls[c])) =>
            /\ Ok(calls[c])
            /\ ~self.drop_invariant =>
                  \A i \in 1..Len(self.cols.list) :
                      \A r \in 1..Len(calls[c].input.rows) :
                          IF CodeAt(calls[c], i, r) = 0
                          THEN HasUndefinedRow(calls[c], i, r)
                          ELSE HasMatrixRow(calls[c], i, r,
                                            CodeAt(calls[c], i, r))

\* ---------------------------------------------------------------------- C4
InterceptName(col) == "col_" \o col \o "_0"

\* C4: with drop_invariant, after fit on any dataset of at least one row the
\* intercept column of every categorical column is in drop_cols, and no
\* later transform returns it.
C4_InterceptAlwaysDropped ==
    (self.drop_invariant /\ fit_status = "ok" /\ self.cols.list # <<>>) =>
        \A i \in 1..Len(self.cols.list) :
            /\ InterceptName(self.cols.list[i]) \in Range(self.drop_cols)
            /\ \A c \in Callers :
                  (Ok(calls[c]) /\ calls[c].out.kind = "DataFrame") =>
                      ~HasColumn(calls[c].out.table,
                                 InterceptName(self.cols.list[i]))

\* ---------------------------------------------------------------------- C5
IsFinishing(c) == calls[c].pc # "done" /\ calls'[c].pc = "done"

\* C5: transform returns an output only from a fitted encoder and for an
\* input of the fit-time column count; before any fit it raises the
\* not-fitted error, for another column count the dimension error, both
\* before anything is encoded or expanded, with no output and the encoder
\* left as it was.
C5_GuardsBeforeAnyWork ==
    [][\A c \in Callers :
          IsFinishing(c) =>
             /\ self' = self
             /\ self.dim = NoneDim => calls'[c].out.status = "NotFitted"
             /\ (self.dim # NoneDim /\ Len(calls'[c].input.columns) # self.dim)
                   => calls'[c].out.status = "DimMismatch"
             /\ calls'[c].out.status \in {"NotFitted", "DimMismatch"} =>
                   /\ ~calls'[c].encoded
                   /\ calls'[c].X = calls'[c].input
                   /\ calls'[c].out.table = NoTable
                   /\ calls'[c].out.kind = "none"
             /\ calls'[c].out.status = "ok" =>
                   /\ self.dim # NoneDim
                   /\ Len(calls'[c].input.columns) = self.dim]_vars

\* a call ended with the dimension error on a fitted encoder, and another
\* with an output
C5_Witness ==
    /\ Done(calls[1]) /\ calls[1].out.status = "DimMismatch"
    /\ Expanded(calls[2])

\* ---------------------------------------------------------------------- C6
IsTransformStep == \E c \in Callers : calls'[c] # calls[c] /\ calls'[c].pc # "idle"

\* C6: no step of a call of transform changes the encoder, and every call,
\* however its steps interleave with another caller's, returns what
\* transform returns when run alone on the encoder.
C6_TransformIsReadOnly ==
    [][IsTransformStep =>
          /\ self' = self
          /\ \A c \in Callers :
                IsFinishing(c) =>
                    calls'[c].out = transform(self', calls'[c].input).out]_vars

\* two calls are under way at once on an encoder that prunes
C6_Witness ==
    /\ calls[1].pc = "expanded"
    /\ calls[2].pc = "encoded"
    /\ self.drop_cols # <<>>

\* ---------------------------------------------------------------------- C7
\* the unpruned transform of the fit dataset
UnprunedFitTransform == transform([self EXCEPT !.drop_cols = <<>>], fit_X).out.table

\* C7: with pruning, fit stores exactly the columns of the unpruned transform
\* of the fit dataset whose variance is at most 1e-5.
C7_ThresholdIs1eMinus5 ==
    (self.drop_invariant /\ fit_status = "ok") =>
        self.drop_cols = InvariantCols(UnprunedFitTransform, 100000)

\* ---------------------------------------------------------------------- C8
\* the table of the call before pruning
ExpandedTable(f) ==
    helmert_coding(ordinal_transform(self.ordinal_encoder, f.input),
                   self.cols.list)

\* C8: with pruning, transform of an input of the fit-time column count
\* never fails for a column of drop_cols that the expanded table lacks; it
\* removes the columns of drop_cols that are there and keeps the order of
\* the others.
C8_MissingInvariantColumnIsNoOp ==
    \A c \in Callers :
        (/\ Done(calls[c])
         /\ self.drop_invariant
         /\ self.dim = Len(calls[c].input.columns)
         /\ self.cols.list # <<>>) =>
            /\ Ok(calls[c])
            /\ calls[c].out.kind = "DataFrame" =>
                  calls[c].out.table.columns =
                      SelectSeq(ExpandedTable(calls[c]).columns,
                                LAMBDA x : x \notin Range(self.drop_cols))

\* ---------------------------------------------------------------------- C9
\* fit of the same dataset by the encoder that differs only in return_df
TwinFit == fit([self EXCEPT !.return_df = ~self.return_df], fit_X)

\* C9: return_df changes only the representation: with drop_invariant, fit
\* on a dataset with a categorical column ends without error for either
\* value of return_df, stores the same drop_cols, and later transforms
\* return the same values.
C9_ReturnDfOnlyRepresentation ==
    (self.drop_invariant /\ fit_status # "none" /\ self.cols.list # <<>>) =>
        /\ fit_status = "ok"
        /\ TwinFit.status = "ok"
        /\ TwinFit.self.drop_cols = self.drop_cols
        /\ \A c \in Callers :
              Done(calls[c]) =>
                  transform(TwinFit.self, calls[c].input).out.table.rows
                      = calls[c].out.table.rows

\* --------------------------------------------------------------------- C10
\* fit of the last fit dataset by a new encoder of the same configuration
FreshFit == fit(HelmertEncoder(cols_arg, self.drop_invariant, self.return_df), fit_X)

\* C10: an encoder constructed without cols detects its categorical columns
\* on the dataset of every fit: after any sequence of fits its state is the
\* state of a new encoder fitted on the last dataset alone.
C10_RefitDetectsColumnsAnew ==
    (cols_arg.isNone /\ fit_status # "none") =>
        /\ self.cols = FreshFit.self.cols
        /\ self.ordinal_encoder = FreshFit.self.ordinal_encoder
        /\ self.drop_cols = FreshFit.self.drop_cols
        /\ self.dim = FreshFit.self.dim

====
